---- MODULE Spec2Model ----
(***************************************************************************)
(* Model of the test-session core of the interactive testing application   *)
(* (src/test_app.py): Question.check_answer, and the TestSession methods   *)
(* start_test, get_current_question, submit_answer and finish_test; of the *)
(* command-line front end TestApp (load_questions, start_interactive_test) *)
(* and of the web flow of src/web_app.py (/start_test, /take_test,         *)
(* /submit_answer, /test_complete).                                        *)
(*                                                                         *)
(* Conventions.                                                            *)
(*  - A Python str is a sequence of one-character strings, so that         *)
(*    str.lower, str.strip and int() are computed character by character.  *)
(*  - Python None is the empty sequence, a value v that may be None is the *)
(*    one-element sequence <<v>>.                                          *)
(*  - datetime.now() is an integer tick that never runs backwards: every   *)
(*    reading is at least the latest reading the session has stored.       *)
(*  - total_points / max_points * 100 is the exact rational <<num, den>>   *)
(*    in lowest terms (floating rounding is not modelled).                 *)
(*  - A result keeps question_id, user_answer, correct_answer, is_correct, *)
(*    points_earned and max_points; the echoed texts 'question' and        *)
(*    'explanation' are copied from the question unchanged and are left    *)
(*    out.                                                                 *)
(*  - The 'results' entry of the summary returned by finish_test is the    *)
(*    session's own list object (line 143), i.e. the variable results.     *)
(***************************************************************************)
EXTENDS Integers, Sequences, FiniteSets, TLC

VARIABLES
    questions,               \* TestSession.questions
    results,                 \* TestSession.results
    start_time,              \* TestSession.start_time
    end_time,                \* TestSession.end_time
    current_question_index,  \* TestSession.current_question_index
    summary,                 \* the value the last successful finish_test returned
    lastCall,                \* the last method call: name, argument, exception, return value
    app,                     \* TestApp: its question list and the last load_questions call
    cli,                     \* one run of TestApp.start_interactive_test
    web                      \* the Flask session of one browser, and the browser's page

vars == <<questions, results, start_time, end_time, current_question_index,
          summary, lastCall, app, cli, web>>

\* ---------------------------------------------------------------- bounds
MaxQuestions == 2
MaxClock == 2

\* ---------------------------------------------------------------- values
None == <<>>
Some(v) == <<v>>
Val(o) == o[1]

\* ---------------------------------------------------------------- strings
UpperChars == <<"A","B","C","D","E","F","G","H","I","J","K","L","M",
                "N","O","P","Q","R","S","T","U","V","W","X","Y","Z">>
LowerChars == <<"a","b","c","d","e","f","g","h","i","j","k","l","m",
                "n","o","p","q","r","s","t","u","v","w","x","y","z">>
DigitChars == <<"0","1","2","3","4","5","6","7","8","9">>
Whitespace == {" ", "\t", "\n"}

IsUpper(c) == \E i \in 1..Len(UpperChars) : UpperChars[i] = c
IsDigit(c) == \E i \in 1..Len(DigitChars) : DigitChars[i] = c
DigitVal(c) == (CHOOSE i \in 1..Len(DigitChars) : DigitChars[i] = c) - 1

LowerChar(c) ==
    IF IsUpper(c)
    THEN LowerChars[CHOOSE i \in 1..Len(UpperChars) : UpperChars[i] = c]
    ELSE c

\* str.lower()
Lower(s) == [i \in 1..Len(s) |-> LowerChar(s[i])]

\* str.strip()
Strip(s) ==
    LET keep == {i \in 1..Len(s) : s[i] \notin Whitespace}
    IN  IF keep = {} THEN <<>>
        ELSE LET lo == CHOOSE i \in keep : \A j \in keep : i <= j
                 hi == CHOOSE i \in keep : \A j \in keep : j <= i
             IN  SubSeq(s, lo, hi)

RECURSIVE DigitsValue(_)
DigitsValue(d) ==
    IF d = <<>> THEN 0
    ELSE 10 * DigitsValue(SubSeq(d, 1, Len(d) - 1)) + DigitVal(d[Len(d)])

\* int(str): surrounding whitespace is ignored, one optional sign, then at
\* least one decimal digit; anything else raises ValueError.
int(s) ==
    LET t    == Strip(s)
        sign == IF t # <<>> /\ t[1] \in {"+", "-"} THEN t[1] ELSE ""
        d    == IF sign = "" THEN t ELSE Tail(t)
    IN  IF d # <<>> /\ \A i \in 1..Len(d) : IsDigit(d[i])
        THEN [raised |-> "none",
              value  |-> IF sign = "-" THEN 0 - DigitsValue(d) ELSE DigitsValue(d)]
        ELSE [raised |-> "ValueError", value |-> 0]

\* ---------------------------------------------------------------- inputs
\* Question records as Question.__init__ builds them from the loaded data.
Q(id, type, options, correct_answer, points) ==
    [id |-> id, type |-> type, options |-> options,
     correct_answer |-> correct_answer, points |-> points]

QuestionPool ==
    { Q("mc",  "multiple_choice", << <<"a">>, <<"b">> >>, <<"b">>, 2),
      Q("dup", "multiple_choice", << <<"a">>, <<"a">> >>, <<"a">>, 1),
      Q("non", "multiple_choice", << <<"a">>, <<"b">>, <<"c">> >>, <<"z">>, 1),
      Q("nil", "multiple_choice", <<>>, <<"a">>, 1),
      Q("tf1", "true_false", <<>>, <<"T","r","u","e">>, 1),
      Q("tf0", "true_false", <<>>, <<"F","a","l","s","e">>, 2),
      Q("fb",  "fill_blank", <<>>, <<"Y","e","s">>, 1),
      Q("es",  "essay", <<>>, <<"a">>, 3) }

\* The question lists of the session runs: one scored by index, one by
\* boolean word, one of a type check_answer does not know.
SessionPool ==
    { Q("mc",  "multiple_choice", << <<"a">>, <<"b">> >>, <<"b">>, 2),
      Q("tf1", "true_false", <<>>, <<"T","r","u","e">>, 1),
      Q("es",  "essay", <<>>, <<"a">>, 3) }

\* The raw answer strings a caller submits.
SessionAnswers == { <<"1">>, <<"2">>, <<"T","r","u","e">> }

Answers ==
    { <<"1">>, <<"2">>, <<"3">>, <<"0">>, <<"-","1">>, <<>>,
      <<"T">>, <<"T","r","u","e">>, <<" ","y","e","s"," ">>, <<"Y">>,
      <<"F","a","l","s","e">> }

RECURSIVE SeqsUpTo(_, _)
SeqsUpTo(S, n) ==
    IF n = 0 THEN { <<>> }
    ELSE LET shorter == SeqsUpTo(S, n - 1)
         IN  shorter \cup { Append(s, x) : s \in shorter, x \in S }

\* ---------------------------------------------------------------- Question
TrueWords == { <<"t","r","u","e">>, <<"t">>, <<"1">>, <<"y","e","s">>, <<"y">> }

\* s.lower().strip() in ['true', 't', '1', 'yes', 'y']
truthy_nostrip(s) == Lower(s) \in TrueWords
truthy(s) == Strip(Lower(s)) \in TrueWords

\* What check_answer gives back: the returned pair, and the exception that
\* left it ("none": it returned).
Scored(is_correct, points) ==
    [raised |-> "none", is_correct |-> is_correct, points |-> points]

\* Mutants of the multiple_choice branch: a 0-based index; a range test without
\* its lower bound (a negative index counts from the end of the list); and a
\* ValueError of int() that is not caught.
check_multiple_choice_uncaught(q, user_answer) ==
    LET parsed == int(user_answer)
        choice_index == parsed.value - 1
    IN  IF parsed.raised = "ValueError"
        THEN [raised |-> "ValueError", is_correct |-> FALSE, points |-> 0]
        ELSE IF 0 <= choice_index /\ choice_index < Len(q.options)
        THEN LET selected == q.options[choice_index + 1]
             IN  Scored(selected = q.correct_answer,
                        IF selected = q.correct_answer THEN q.points ELSE 0)
        ELSE Scored(FALSE, 0)

check_multiple_choice_zero_based(q, user_answer) ==
    LET parsed == int(user_answer)
        choice_index == parsed.value
    IN  IF parsed.raised = "ValueError" THEN Scored(FALSE, 0)
        ELSE IF 0 <= choice_index /\ choice_index < Len(q.options)
        THEN LET selected == q.options[choice_index + 1]
             IN  Scored(selected = q.correct_answer,
                        IF selected = q.correct_answer THEN q.points ELSE 0)
        ELSE Scored(FALSE, 0)

check_multiple_choice_wraps(q, user_answer) ==
    LET parsed == int(user_answer)
        choice_index == parsed.value - 1
        n == Len(q.options)
    IN  IF parsed.raised = "ValueError" THEN Scored(FALSE, 0)
        ELSE IF choice_index < n /\ 0 - n <= choice_index
        THEN LET selected == q.options[((choice_index + n) % n) + 1]
             IN  Scored(selected = q.correct_answer,
                        IF selected = q.correct_answer THEN q.points ELSE 0)
        ELSE Scored(FALSE, 0)

\* The multiple_choice branch: ValueError of int() is caught (line 59); an
\* index out of range leaves the branch and reaches the final return (line 73).
check_multiple_choice(q, user_answer) ==
    LET parsed == int(user_answer)
        choice_index == parsed.value - 1
    IN  IF parsed.raised = "ValueError" THEN Scored(FALSE, 0)
        ELSE IF 0 <= choice_index /\ choice_index < Len(q.options)
        THEN LET selected == q.options[choice_index + 1]
             IN  Scored(selected = q.correct_answer,
                        IF selected = q.correct_answer THEN q.points ELSE 0)
        ELSE Scored(FALSE, 0)

check_true_false(q, user_answer) ==
    LET answer_bool == truthy(user_answer)
        correct_bool == truthy(q.correct_answer)
    IN  Scored(answer_bool = correct_bool,
               IF answer_bool = correct_bool THEN q.points ELSE 0)

check_text(q, user_answer) ==
    LET user_clean == Strip(Lower(user_answer))
        correct_clean == Strip(Lower(q.correct_answer))
    IN  Scored(user_clean = correct_clean,
               IF user_clean = correct_clean THEN q.points ELSE 0)

check_answer(q, user_answer) ==
    IF q.type = "multiple_choice" THEN check_multiple_choice(q, user_answer)
    ELSE IF q.type = "true_false" THEN check_true_false(q, user_answer)
    ELSE IF q.type \in {"fill_blank", "short_answer"} THEN check_text(q, user_answer)
    ELSE Scored(FALSE, 0)

\* ---------------------------------------------------------------- TestSession
Call(op, raised, ret) == [op |-> op, raised |-> raised, ret |-> ret]

\* datetime.now(): no earlier than the latest reading stored in the session.
Latest ==
    LET s == IF start_time = None THEN 0 ELSE Val(start_time)
        e == IF end_time = None THEN 0 ELSE Val(end_time)
    IN  IF s >= e THEN s ELSE e

Now == { t \in 0..MaxClock : t >= Latest }

\* TestApp.__init__ (lines 167-169) and the last load_questions call.
NewApp == [questions |-> <<>>, loaded |-> None, raised |-> "none"]

\* No start_interactive_test run yet: where the run stands, how it ended,
\* and how often it has called finish_test and save_results.
NoRun == [pc |-> "menu", outcome |-> "none", finish_calls |-> 0, save_calls |-> 0]

\* A Flask session holding the loaded question dictionaries and nothing else
\* (every handler reads the other keys with session.get and a default), the
\* page the browser shows, per recorded result the question its answer was
\* entered for, and what the last /test_complete response rendered.
NewWeb(loaded) ==
    [questions        |-> loaded,
     test_questions   |-> <<>>,
     current_question |-> 0,
     test_results     |-> <<>>,
     page             |-> None,
     given            |-> <<>>,
     rendered         |-> None]

\* The session methods leave the front ends alone.
FrontEnds == <<app, cli, web>>

\* TestSession.__init__ over a question list the caller supplies.
Init ==
    /\ questions \in SeqsUpTo(SessionPool, MaxQuestions)
    /\ results = <<>>
    /\ start_time = None
    /\ end_time = None
    /\ current_question_index = 0
    /\ summary = None
    /\ lastCall = Call("__init__", "none", None)
    /\ app = NewApp
    /\ cli = NoRun
    /\ web = NewWeb(<<>>)

\* Mutant: starting the test also resets the progress of the session.
start_test_resets ==
    /\ \E t \in Now : start_time' = Some(t)
    /\ results' = <<>>
    /\ current_question_index' = 0
    /\ lastCall' = Call("start_test", "none", None)
    /\ UNCHANGED <<questions, end_time, summary>>

start_test ==
    /\ \E t \in Now : start_time' = Some(t)
    /\ lastCall' = Call("start_test", "none", None)
    /\ UNCHANGED <<questions, results, end_time, current_question_index, summary>>

\* Mutant: the index wraps around instead of running off the end of the list.
get_current_question_wraps ==
    IF questions # <<>>
    THEN [raised |-> "none",
          value  |-> questions[(current_question_index % Len(questions)) + 1]]
    ELSE [raised |-> "IndexError", value |-> None]

\* self.questions[self.current_question_index]; the index is never negative.
get_current_question ==
    IF current_question_index < Len(questions)
    THEN [raised |-> "none", value |-> questions[current_question_index + 1]]
    ELSE [raised |-> "IndexError", value |-> None]

\* The result dictionary of lines 104-113.
make_result(question, answer, scored) ==
    [question_id    |-> question.id,
     user_answer    |-> answer,
     correct_answer |-> question.correct_answer,
     is_correct     |-> scored.is_correct,
     points_earned  |-> scored.points,
     max_points     |-> question.points]

\* Mutant: the index is advanced only after a correct answer.
submit_answer_stays_on_wrong(answer) ==
    LET got == get_current_question
        scored == check_answer(got.value, answer)
        failed == IF got.raised # "none" THEN got.raised ELSE scored.raised
    IN  IF failed # "none"
        THEN /\ lastCall' = Call("submit_answer", failed, None)
             /\ UNCHANGED <<questions, results, start_time, end_time,
                            current_question_index, summary>>
        ELSE /\ results' = Append(results, make_result(got.value, answer, scored))
             /\ current_question_index' =
                    IF scored.is_correct THEN current_question_index + 1
                    ELSE current_question_index
             /\ lastCall' = Call("submit_answer", "none",
                                 Some(current_question_index' < Len(questions)))
             /\ UNCHANGED <<questions, start_time, end_time, summary>>

\* Mutant: the return value is computed before the index is advanced.
submit_answer_returns_before_advance(answer) ==
    LET got == get_current_question
        scored == check_answer(got.value, answer)
        failed == IF got.raised # "none" THEN got.raised ELSE scored.raised
    IN  IF failed # "none"
        THEN /\ lastCall' = Call("submit_answer", failed, None)
             /\ UNCHANGED <<questions, results, start_time, end_time,
                            current_question_index, summary>>
        ELSE /\ results' = Append(results, make_result(got.value, answer, scored))
             /\ current_question_index' = current_question_index + 1
             /\ lastCall' = Call("submit_answer", "none",
                                 Some(current_question_index < Len(questions)))
             /\ UNCHANGED <<questions, start_time, end_time, summary>>

\* Lines 99-123. An exception of get_current_question (line 101) or of
\* check_answer (line 102) leaves the method before anything is stored.
submit_answer(answer) ==
    LET got == get_current_question
        scored == check_answer(got.value, answer)
        failed == IF got.raised # "none" THEN got.raised ELSE scored.raised
    IN  IF failed # "none"
        THEN /\ lastCall' = Call("submit_answer", failed, None)
             /\ UNCHANGED <<questions, results, start_time, end_time,
                            current_question_index, summary>>
        ELSE /\ results' = Append(results, make_result(got.value, answer, scored))
             /\ current_question_index' = current_question_index + 1
             /\ lastCall' = Call("submit_answer", "none",
                                 Some(current_question_index' < Len(questions)))
             /\ UNCHANGED <<questions, start_time, end_time, summary>>

RECURSIVE Sum(_, _)
Sum(f, n) == IF n = 0 THEN 0 ELSE Sum(f, n - 1) + f[n]

RECURSIVE GCD(_, _)
GCD(a, b) == IF b = 0 THEN a ELSE GCD(b, a % b)

\* The exact value of n / d for n >= 0, d > 0, in lowest terms.
Ratio(n, d) == LET g == GCD(n, d) IN <<n \div g, d \div g>>

\* Mutants: the fraction is not scaled to a percentage; 100 for an empty test.
percentage_unscaled(total_points, max_points) ==
    IF max_points > 0 THEN Ratio(total_points, max_points) ELSE <<0, 1>>

\* (total_points / max_points * 100) if max_points > 0 else 0
percentage(total_points, max_points) ==
    IF max_points > 0 THEN Ratio(total_points * 100, max_points) ELSE <<0, 1>>

\* Mutant: total_points is summed over max_points, as max_points is.
finish_test_total_from_max ==
    \E t \in Now :
        /\ end_time' = Some(t)
        /\ IF start_time = None
           THEN /\ lastCall' = Call("finish_test", "TypeError", None)
                /\ summary' = summary
           ELSE LET max_points == Sum([i \in 1..Len(results) |-> results[i].max_points],
                                      Len(results))
                IN  /\ summary' = Some([total_points |-> max_points,
                                        max_points   |-> max_points,
                                        percentage   |-> percentage(max_points, max_points),
                                        duration     |-> t - Val(start_time)])
                    /\ lastCall' = Call("finish_test", "none", None)
        /\ UNCHANGED <<questions, results, start_time, current_question_index>>

\* Lines 127-144. end_time is assigned first; the duration end_time - start_time
\* is first evaluated on line 135 and raises TypeError when start_time is None,
\* after end_time has been stored and before anything is returned.
finish_test ==
    \E t \in Now :
        /\ end_time' = Some(t)
        /\ IF start_time = None
           THEN /\ lastCall' = Call("finish_test", "TypeError", None)
                /\ summary' = summary
           ELSE LET total_points == Sum([i \in 1..Len(results) |-> results[i].points_earned],
                                        Len(results))
                    max_points == Sum([i \in 1..Len(results) |-> results[i].max_points],
                                      Len(results))
                IN  /\ summary' = Some([total_points |-> total_points,
                                        max_points   |-> max_points,
                                        percentage   |-> percentage(total_points, max_points),
                                        duration     |-> t - Val(start_time)])
                    /\ lastCall' = Call("finish_test", "none", None)
        /\ UNCHANGED <<questions, results, start_time, current_question_index>>

\* 'results': self.results (line 143): the summary's result list is the
\* session's list object itself, not a copy of it.
summary_results == results

Next ==
    \/ start_test /\ UNCHANGED FrontEnds
    \/ \E answer \in SessionAnswers : submit_answer(answer) /\ UNCHANGED FrontEnds
    \/ finish_test /\ UNCHANGED FrontEnds

Spec == Init /\ [][Next]_vars

\* The scoring runs: a session over any one question of QuestionPool, answered
\* with any string of Answers.
InitScore ==
    /\ questions \in { <<q>> : q \in QuestionPool }
    /\ results = <<>>
    /\ start_time = None
    /\ end_time = None
    /\ current_question_index = 0
    /\ summary = None
    /\ lastCall = Call("__init__", "none", None)
    /\ app = NewApp
    /\ cli = NoRun
    /\ web = NewWeb(<<>>)

NextScore ==
    \/ start_test /\ UNCHANGED FrontEnds
    \/ \E answer \in Answers : submit_answer(answer) /\ UNCHANGED FrontEnds
    \/ finish_test /\ UNCHANGED FrontEnds

SpecScore == InitScore /\ [][NextScore]_vars

\* ---------------------------------------------------------------- TestApp
\* A JSON value as json.load returns it: a dict (its entries), a list (its
\* items), or None. Every value has the three fields, so that any two compare.
NoEntries == [none |-> TRUE]
JObject(entries) == [t |-> "object", entries |-> entries, items |-> <<>>]
JArray(items) == [t |-> "array", entries |-> NoEntries, items |-> items]
JNull == [t |-> "null", entries |-> NoEntries, items |-> <<>>]

\* Question.__init__ (lines 18-26): data.get(key, default) for every field.
Question(data) ==
    [id             |-> IF "id" \in DOMAIN data THEN data.id ELSE "",
     type           |-> IF "type" \in DOMAIN data THEN data.type ELSE "multiple_choice",
     options        |-> IF "options" \in DOMAIN data THEN data.options ELSE <<>>,
     correct_answer |-> IF "correct_answer" \in DOMAIN data THEN data.correct_answer ELSE <<>>,
     points         |-> IF "points" \in DOMAIN data THEN data.points ELSE 1]

\* The files load_questions is given: none at that path, text that is no JSON,
\* and JSON documents.
NoFile == [kind |-> "missing", data |-> JNull]
TextFile == [kind |-> "text", data |-> JNull]
JsonFile(data) == [kind |-> "json", data |-> data]

QuestionSet(qs) == JsonFile(JObject([title |-> "t", questions |-> JArray(qs)]))
Dict(id) == JObject(CHOOSE q \in SessionPool : q.id = id)
SparseDict == JObject([correct_answer |-> <<"a">>])

GoodFiles ==
    { QuestionSet(<<Dict("mc"), Dict("tf1")>>),
      QuestionSet(<<Dict("es")>>),
      QuestionSet(<<SparseDict>>),
      JsonFile(JObject([title |-> "t"])) }

BadFiles ==
    { NoFile, TextFile,
      JsonFile(JArray(<<SparseDict>>)),
      JsonFile(JObject([title |-> "t", questions |-> JNull])),
      JsonFile(JObject([title |-> "t", questions |-> JObject([a |-> JNull])])),
      QuestionSet(<<SparseDict, JNull>>) }

Files == GoodFiles \cup BadFiles

\* The body of the try statement (lines 174-177): the question list it builds,
\* or the exception that leaves it. data.get fails on anything but a dict;
\* iterating a dict yields its keys, which Question() cannot read.
read_questions(file) ==
    LET Fails(e) == [raised |-> e, value |-> <<>>]
        data == file.data
        listed == IF "questions" \in DOMAIN data.entries THEN data.entries.questions
                  ELSE JArray(<<>>)
    IN  IF file.kind = "missing" THEN Fails("FileNotFoundError")
        ELSE IF file.kind = "text" THEN Fails("JSONDecodeError")
        ELSE IF data.t # "object" THEN Fails("AttributeError")
        ELSE IF listed.t = "array"
        THEN IF \E k \in 1..Len(listed.items) : listed.items[k].t # "object"
             THEN Fails("AttributeError")
             ELSE [raised |-> "none",
                   value  |-> [k \in 1..Len(listed.items) |->
                                   Question(listed.items[k].entries)]]
        ELSE IF listed.t = "object"
        THEN IF DOMAIN listed.entries = {} THEN [raised |-> "none", value |-> <<>>]
             ELSE Fails("AttributeError")
        ELSE Fails("TypeError")

Loaded(file, ret) == Some([file |-> file, ret |-> ret])

\* Mutant: only the two named exceptions are caught.
load_questions_named_only(file) ==
    LET got == read_questions(file)
    IN  /\ app' = IF got.raised = "none"
                  THEN [questions |-> got.value, loaded |-> Loaded(file, TRUE),
                        raised |-> "none"]
                  ELSE IF got.raised \in {"FileNotFoundError", "JSONDecodeError"}
                  THEN [app EXCEPT !.loaded = Loaded(file, FALSE), !.raised = "none"]
                  ELSE [app EXCEPT !.loaded = None, !.raised = got.raised]
        /\ UNCHANGED <<questions, results, start_time, end_time,
                       current_question_index, summary, lastCall, cli, web>>

\* Lines 171-189: self.questions is assigned once the whole list is built;
\* FileNotFoundError, JSONDecodeError and every other Exception are caught.
load_questions(file) ==
    LET got == read_questions(file)
    IN  /\ app' = IF got.raised = "none"
                  THEN [questions |-> got.value, loaded |-> Loaded(file, TRUE),
                        raised |-> "none"]
                  ELSE [app EXCEPT !.loaded = Loaded(file, FALSE), !.raised = "none"]
        /\ UNCHANGED <<questions, results, start_time, end_time,
                       current_question_index, summary, lastCall, cli, web>>

\* What the user types at a prompt of start_interactive_test.
CliInputs == SessionAnswers \cup { <<"Q">>, <<" ","e","x","i","t">> }
CliReplies == { <<"Y">>, <<"n">> }
QuitWords == { <<"q","u","i","t">>, <<"e","x","i","t">>, <<"q">> }
YesWords == { <<"y">>, <<"y","e","s">> }

Orders(list) ==
    { p \in [1..Len(list) -> 1..Len(list)] :
          \A a, b \in 1..Len(list) : p[a] = p[b] => a = b }
Shuffles(list) == { [k \in 1..Len(list) |-> list[p[k]]] : p \in Orders(list) }

\* Lines 222-231: nothing to do without questions; otherwise a new TestSession
\* over a copy of the list, shuffled on request.
cli_enter(randomize) ==
    /\ cli.pc = "menu"
    /\ IF app.questions = <<>>
       THEN /\ cli' = [cli EXCEPT !.pc = "returned", !.outcome = "no_questions"]
            /\ UNCHANGED <<questions, results, start_time, end_time,
                           current_question_index, summary, lastCall>>
       ELSE /\ questions' \in IF randomize THEN Shuffles(app.questions)
                                           ELSE {app.questions}
            /\ results' = <<>>
            /\ start_time' = None
            /\ end_time' = None
            /\ current_question_index' = 0
            /\ summary' = None
            /\ lastCall' = Call("__init__", "none", None)
            /\ cli' = [cli EXCEPT !.pc = "start"]
    /\ UNCHANGED <<app, web>>

\* Line 232, and the first test of the loop condition (line 234).
cli_start_test ==
    /\ cli.pc = "start"
    /\ start_test
    /\ cli' = [cli EXCEPT !.pc = IF current_question_index < Len(questions)
                                 THEN "input" ELSE "finish"]
    /\ UNCHANGED <<app, web>>

\* Mutant: a quit word leaves the loop instead of the method.
cli_input_quit_breaks(raw) ==
    LET answer == Strip(raw)
    IN  /\ cli.pc = "input"
        /\ IF Lower(answer) \in QuitWords
           THEN /\ cli' = [cli EXCEPT !.pc = "finish"]
                /\ UNCHANGED <<questions, results, start_time, end_time,
                               current_question_index, summary, lastCall>>
           ELSE /\ submit_answer(answer)
                /\ cli' = IF lastCall'.raised # "none"
                          THEN [cli EXCEPT !.pc = "returned", !.outcome = "raised"]
                          ELSE IF lastCall'.ret = Some(TRUE)
                                  /\ current_question_index' < Len(questions)
                          THEN [cli EXCEPT !.pc = "input"]
                          ELSE [cli EXCEPT !.pc = "finish"]
        /\ UNCHANGED <<app, web>>

\* Lines 247-255 and the next test of the loop condition: the stripped input
\* is a quit word (return), or it is submitted; the loop is left when
\* submit_answer returns false. An exception of submit_answer other than
\* KeyboardInterrupt leaves the method.
cli_input(raw) ==
    LET answer == Strip(raw)
    IN  /\ cli.pc = "input"
        /\ IF Lower(answer) \in QuitWords
           THEN /\ cli' = [cli EXCEPT !.pc = "returned", !.outcome = "cancelled"]
                /\ UNCHANGED <<questions, results, start_time, end_time,
                               current_question_index, summary, lastCall>>
           ELSE /\ submit_answer(answer)
                /\ cli' = IF lastCall'.raised # "none"
                          THEN [cli EXCEPT !.pc = "returned", !.outcome = "raised"]
                          ELSE IF lastCall'.ret = Some(TRUE)
                                  /\ current_question_index' < Len(questions)
                          THEN [cli EXCEPT !.pc = "input"]
                          ELSE [cli EXCEPT !.pc = "finish"]
        /\ UNCHANGED <<app, web>>

\* Lines 257-259: KeyboardInterrupt while the answer is awaited.
cli_interrupt ==
    /\ cli.pc = "input"
    /\ cli' = [cli EXCEPT !.pc = "returned", !.outcome = "interrupted"]
    /\ UNCHANGED <<questions, results, start_time, end_time,
                   current_question_index, summary, lastCall, app, web>>

\* Line 262.
cli_finish ==
    /\ cli.pc = "finish"
    /\ finish_test
    /\ cli' = [cli EXCEPT !.pc = "details", !.finish_calls = @ + 1]
    /\ UNCHANGED <<app, web>>

\* Lines 264-270: show_detailed_results only prints; KeyboardInterrupt passes.
cli_details ==
    /\ cli.pc = "details"
    /\ cli' = [cli EXCEPT !.pc = "save"]
    /\ UNCHANGED <<questions, results, start_time, end_time,
                   current_question_index, summary, lastCall, app, web>>

\* Lines 272-278: save_results on y or yes; KeyboardInterrupt passes.
cli_save(reply, interrupted) ==
    /\ cli.pc = "save"
    /\ cli' = [cli EXCEPT !.pc = "returned", !.outcome = "completed",
                          !.save_calls = IF ~interrupted /\ Strip(Lower(reply)) \in YesWords
                                         THEN @ + 1 ELSE @]
    /\ UNCHANGED <<questions, results, start_time, end_time,
                   current_question_index, summary, lastCall, app, web>>

\* TestApp: any number of load_questions calls, then one run of
\* start_interactive_test. No TestSession exists before the run.
InitApp ==
    /\ questions = <<>>
    /\ results = <<>>
    /\ start_time = None
    /\ end_time = None
    /\ current_question_index = 0
    /\ summary = None
    /\ lastCall = Call("none", "none", None)
    /\ app = NewApp
    /\ cli = NoRun
    /\ web = NewWeb(<<>>)

NextApp ==
    \/ \E file \in Files : cli.pc = "menu" /\ load_questions(file)
    \/ \E randomize \in BOOLEAN : cli_enter(randomize)
    \/ cli_start_test
    \/ \E raw \in CliInputs : cli_input(raw)
    \/ cli_interrupt
    \/ cli_finish
    \/ cli_details
    \/ \E reply \in CliReplies, interrupted \in BOOLEAN : cli_save(reply, interrupted)

SpecApp == InitApp /\ [][NextApp]_vars

\* ---------------------------------------------------------------- web flow
\* src/web_app.py. test_start_time and randomized, which /start_test stores and
\* which are read only to show a duration, are left out, as is the flashed text.
WebPool == { q \in SessionPool : q.type # "essay" }
WebAnswers == { <<"1">>, <<"2"," ">>, <<" ","T","r","u","e">> }

IsAlpha(c) == IsUpper(c) \/ \E k \in 1..Len(LowerChars) : LowerChars[k] = c

\* ord(c.upper()) - ord('A') for a letter c
LetterIndex(c) ==
    (CHOOSE k \in 1..Len(UpperChars) : UpperChars[k] = c \/ LowerChars[k] = c) - 1

\* Lines 171-180: a one-letter correct answer is shown as the option it names.
correct_answer_display(question) ==
    IF /\ question.type = "multiple_choice"
       /\ Len(question.correct_answer) = 1
       /\ IsAlpha(question.correct_answer[1])
       /\ LetterIndex(question.correct_answer[1]) < Len(question.options)
    THEN question.options[LetterIndex(question.correct_answer[1]) + 1]
    ELSE question.correct_answer

\* Lines 182-191: a numeric choice is shown as the option text.
user_answer_display(question, user_answer) ==
    IF /\ question.type = "multiple_choice"
       /\ user_answer # <<>>
       /\ \A k \in 1..Len(user_answer) : IsDigit(user_answer[k])
       /\ 0 <= DigitsValue(user_answer) - 1
       /\ DigitsValue(user_answer) - 1 < Len(question.options)
    THEN question.options[DigitsValue(user_answer)]
    ELSE user_answer

\* /start_test (lines 112-133); random.sample of the whole list is a shuffle.
web_start_test(randomize) ==
    IF web.questions = <<>>
    THEN web' = web
    ELSE \E order \in IF randomize THEN Shuffles(web.questions) ELSE {web.questions} :
             web' = [web EXCEPT !.test_questions = order,
                                !.current_question = 0,
                                !.test_results = <<>>,
                                !.given = <<>>]

\* /take_test (lines 135-152): the page shows the current question, or the
\* request is redirected and the browser keeps what it has.
web_take_test ==
    IF web.test_questions = <<>> \/ web.current_question >= Len(web.test_questions)
    THEN web' = web
    ELSE web' = [web EXCEPT !.page =
                     Some([current_index |-> web.current_question,
                           question |-> web.test_questions[web.current_question + 1]])]

\* Mutant: a wrong answer leaves the question current.
web_submit_answer_retries_wrong(raw, asked) ==
    IF web.current_question >= Len(web.test_questions)
    THEN web' = web
    ELSE LET question == Question(web.test_questions[web.current_question + 1])
             user_answer == Strip(raw)
             scored == check_answer(question, user_answer)
             result == [question_id    |-> question.id,
                        user_answer    |-> user_answer_display(question, user_answer),
                        correct_answer |-> correct_answer_display(question),
                        is_correct     |-> scored.is_correct,
                        points_earned  |-> scored.points,
                        max_points     |-> question.points]
         IN  web' = [web EXCEPT !.test_results = Append(@, result),
                                !.current_question = IF scored.is_correct THEN @ + 1 ELSE @,
                                !.given = Append(@, asked)]

\* /submit_answer (lines 154-209). The form carries the answer alone; asked
\* names the question of the page the answer was typed into and is recorded
\* beside the result.
web_submit_answer(raw, asked) ==
    IF web.current_question >= Len(web.test_questions)
    THEN web' = web
    ELSE LET question == Question(web.test_questions[web.current_question + 1])
             user_answer == Strip(raw)
             scored == check_answer(question, user_answer)
             result == [question_id    |-> question.id,
                        user_answer    |-> user_answer_display(question, user_answer),
                        correct_answer |-> correct_answer_display(question),
                        is_correct     |-> scored.is_correct,
                        points_earned  |-> scored.points,
                        max_points     |-> question.points]
         IN  web' = [web EXCEPT !.test_results = Append(@, result),
                                !.current_question = @ + 1,
                                !.given = Append(@, asked)]

\* /test_complete (lines 211-241): nothing is rendered without results.
web_test_complete ==
    IF web.test_results = <<>>
    THEN web' = [web EXCEPT !.rendered = None]
    ELSE LET n == Len(web.test_results)
             total_points == Sum([k \in 1..n |-> web.test_results[k].points_earned], n)
             max_points == Sum([k \in 1..n |-> web.test_results[k].max_points], n)
         IN  web' = [web EXCEPT !.rendered =
                         Some([total_points |-> total_points,
                               max_points   |-> max_points,
                               percentage   |-> percentage(total_points, max_points)])]

SessionVars == <<questions, results, start_time, end_time, current_question_index,
                 summary, lastCall>>

\* One browser session over any loaded question list; requests in any order,
\* answers typed into the page the browser holds.
InitWeb ==
    /\ questions = <<>>
    /\ results = <<>>
    /\ start_time = None
    /\ end_time = None
    /\ current_question_index = 0
    /\ summary = None
    /\ lastCall = Call("none", "none", None)
    /\ app = NewApp
    /\ cli = NoRun
    /\ web \in { NewWeb(loaded) : loaded \in SeqsUpTo(WebPool, MaxQuestions) }

NextWeb ==
    \/ \E randomize \in BOOLEAN :
           web_start_test(randomize) /\ UNCHANGED <<SessionVars, app, cli>>
    \/ web_take_test /\ UNCHANGED <<SessionVars, app, cli>>
    \/ \E raw \in WebAnswers :
           /\ web.page # None
           /\ web_submit_answer(raw, Val(web.page).question.id)
           /\ UNCHANGED <<SessionVars, app, cli>>
    \/ web_test_complete /\ UNCHANGED <<SessionVars, app, cli>>

SpecWeb == InitWeb /\ [][NextWeb]_vars

\* The web flow beside a TestSession that is given the same question list and
\* the same raw answers: /start_test beside TestSession(...).start_test(),
\* /submit_answer beside submit_answer, /test_complete beside finish_test.
refine_start(randomize) ==
    /\ web_start_test(randomize)
    /\ IF web.questions = <<>>
       THEN UNCHANGED SessionVars
       ELSE /\ questions' = web'.test_questions
            /\ results' = <<>>
            /\ \E t \in 0..MaxClock : start_time' = Some(t)
            /\ end_time' = None
            /\ current_question_index' = 0
            /\ summary' = None
            /\ lastCall' = Call("start_test", "none", None)
    /\ UNCHANGED <<app, cli>>

refine_submit(raw) ==
    /\ web_submit_answer(raw, "")
    /\ submit_answer(raw)
    /\ UNCHANGED <<app, cli>>

refine_complete ==
    /\ web_test_complete
    /\ IF start_time = None THEN UNCHANGED SessionVars ELSE finish_test
    /\ UNCHANGED <<app, cli>>

NextRefine ==
    \/ \E randomize \in BOOLEAN : refine_start(randomize)
    \/ \E raw \in WebAnswers : refine_submit(raw)
    \/ refine_complete

SpecRefine == InitWeb /\ [][NextRefine]_vars

\* ---------------------------------------------------------------- properties
Completed == start_time # None /\ end_time # None
Returned == summary # None
LastResult == results[Len(results)]
SubmitStep == lastCall'.op = "submit_answer"

\* C1: starting from an empty result list and index 0, every submit_answer call
\* made while a question is left appends exactly one result and advances the
\* index by one, nothing else changes either, and so the result list is always
\* exactly as long as the index (N after N such calls, N <= number of questions).
C1_ResultsMatchIndex ==
    /\ [](/\ Len(results) = current_question_index
          /\ current_question_index <= Len(questions))
    /\ [][IF SubmitStep /\ current_question_index < Len(questions)
          THEN /\ current_question_index' = current_question_index + 1
               /\ Len(results') = Len(results) + 1
          ELSE /\ current_question_index' = current_question_index
               /\ results' = results]_vars

C1_Witness ==
    /\ Len(questions) >= 2
    /\ current_question_index = Len(questions)
    /\ Len(results) = Len(questions)

\* C2: a submit_answer call made before start_test or after finish_test is
\* rejected: while the session is not in progress no step appends a result or
\* advances the index.
C2_SubmitOnlyInProgress ==
    [][(start_time = None \/ end_time # None)
       => (results' = results /\ current_question_index' = current_question_index)]_vars

\* C3: a submit_answer call made when the index equals the number of questions
\* (an empty question list included) raises an error and leaves the result list
\* and the index as they were.
C3_SubmitPastEndFails ==
    [][(SubmitStep /\ current_question_index = Len(questions))
       => (/\ lastCall'.raised = "IndexError"
           /\ results' = results
           /\ current_question_index' = current_question_index)]_vars

C3_Witness ==
    /\ lastCall.op = "submit_answer"
    /\ lastCall.raised = "IndexError"
    /\ current_question_index = Len(questions)
    /\ Len(results) >= 1

\* C4: once a started session is completed, its end timestamp never changes and
\* no further summary is returned: a second finish_test does not re-finalize it.
C4_FinishOnlyOnce ==
    [][Completed => (end_time' = end_time /\ summary' = summary)]_vars

\* C5: the states are linear: an end timestamp is set only when a start
\* timestamp is set, and it is no earlier than the start timestamp.
C5_LinearStates ==
    end_time # None => (start_time # None /\ Val(end_time) >= Val(start_time))

\* C6: the summary finish_test returns has max_points equal to the sum of the
\* point values of all questions of the session, however many answers had been
\* submitted, and total_points equal to the sum of points_earned over the results.
C6_MaxPointsOverAllQuestions ==
    (lastCall.op = "finish_test" /\ lastCall.raised = "none")
    => /\ Val(summary).max_points =
              Sum([i \in 1..Len(questions) |-> questions[i].points], Len(questions))
       /\ Val(summary).total_points =
              Sum([i \in 1..Len(results) |-> results[i].points_earned], Len(results))

\* C7 as stated: in every summary, percentage is 0 exactly when max_points is 0,
\* and otherwise it is 100 * total_points / max_points.
C7_ZeroExactlyWhenMaxZero ==
    Returned =>
        LET s == Val(summary)
        IN  /\ (s.percentage = <<0, 1>>) <=> (s.max_points = 0)
            /\ s.max_points # 0 =>
                   s.percentage[1] * s.max_points = 100 * s.total_points * s.percentage[2]

\* C7 as amended: in every summary, percentage is 0 whenever max_points is 0
\* (and also whenever total_points is 0), and whenever max_points > 0 it is
\* 100 * total_points / max_points.
C7_Percentage ==
    Returned =>
        LET s == Val(summary)
        IN  /\ s.max_points = 0 => s.percentage = <<0, 1>>
            /\ s.max_points > 0 =>
                   /\ s.percentage[2] > 0
                   /\ s.percentage[1] * s.max_points
                          = 100 * s.total_points * s.percentage[2]

C7_Witness ==
    /\ Returned
    /\ Val(summary).total_points > 0
    /\ Val(summary).total_points < Val(summary).max_points

\* The decimal numeral of an index 0..9.
Numeral(k) == <<DigitChars[k + 1]>>

MultipleChoiceResults ==
    { i \in 1..Len(results) : questions[i].type = "multiple_choice" }

\* C8 as stated: for a multiple_choice question, the index of the (first) option
\* equal to correct_answer scores (true, points) and every other in-range index
\* scores (false, 0).
C8_OnlyOneIndexIsCorrect ==
    \A i \in MultipleChoiceResults :
        LET q == questions[i]
            r == results[i]
            matching == { j \in 1..Len(q.options) : q.options[j] = q.correct_answer }
        IN  \A k \in 1..Len(q.options) :
                r.user_answer = Numeral(k) =>
                    IF matching # {} /\ k = CHOOSE j \in matching : \A m \in matching : j <= m
                    THEN r.is_correct /\ r.points_earned = q.points
                    ELSE ~r.is_correct /\ r.points_earned = 0

\* C8 as amended: for a multiple_choice question, an in-range index scores
\* (true, points) when the option at that index equals correct_answer (every
\* such index, when option strings repeat) and (false, 0) when it differs.
C8_IndexScoring ==
    \A i \in MultipleChoiceResults :
        LET q == questions[i]
            r == results[i]
        IN  \A k \in 1..Len(q.options) :
                r.user_answer = Numeral(k) =>
                    IF q.options[k] = q.correct_answer
                    THEN r.is_correct /\ r.points_earned = q.points
                    ELSE ~r.is_correct /\ r.points_earned = 0

C8_Witness ==
    /\ Len(results) = 1
    /\ questions[1].type = "multiple_choice"
    /\ questions[1].options[1] = questions[1].options[2]
    /\ results[1].user_answer = Numeral(2)
    /\ results[1].is_correct

\* The answers C9 lists: the empty string, text that is no number, 0, a negative
\* number, an index greater than the number of options.
IsNumeral(a) == a # <<>> /\ \A i \in 1..Len(a) : IsDigit(a[i])
Unscoreable(q, a) ==
    \/ a = <<>>
    \/ \E i \in 1..Len(a) : ~IsDigit(a[i]) /\ a[i] \notin {"+", "-"} \cup Whitespace
    \/ IsNumeral(a) /\ (DigitsValue(a) = 0 \/ DigitsValue(a) > Len(q.options))
    \/ a # <<>> /\ a[1] = "-" /\ IsNumeral(Tail(a)) /\ DigitsValue(Tail(a)) > 0

\* C9: submit_answer on a current question never raises, whatever the answer;
\* it appends exactly one result and advances the index by one, and for an
\* unscoreable answer to a multiple_choice question that result has
\* is_correct = false and points_earned = 0.
C9_UnscoreableIsIncorrect ==
    [][(SubmitStep /\ current_question_index < Len(questions))
       => LET q == questions[current_question_index + 1]
              r == results'[Len(results')]
          IN  /\ lastCall'.raised = "none"
              /\ Len(results') = Len(results) + 1
              /\ SubSeq(results', 1, Len(results)) = results
              /\ current_question_index' = current_question_index + 1
              /\ (q.type = "multiple_choice" /\ Unscoreable(q, r.user_answer))
                     => (~r.is_correct /\ r.points_earned = 0)]_vars

C9_Witness ==
    /\ Len(results) = 1
    /\ current_question_index = 1
    /\ questions[1].type = "multiple_choice"
    /\ questions[1].options # <<>>
    /\ results[1].user_answer = Numeral(0)
    /\ ~results[1].is_correct
    /\ results[1].points_earned = 0

\* The boolean word recognizer as C10 words it: trim, then compare with each of
\* true, t, 1, yes, y letter by letter, in either case.
SameWord(s, w) ==
    LET t == Strip(s)
    IN  /\ Len(t) = Len(w)
        /\ \A i \in 1..Len(w) :
               \/ t[i] = w[i]
               \/ \E j \in 1..Len(LowerChars) :
                      LowerChars[j] = w[i] /\ UpperChars[j] = t[i]
NormalizesToTrue(s) == \E w \in TrueWords : SameWord(s, w)

\* C10: for a true_false question the answer is correct iff the answer and
\* correct_answer normalize to the same boolean, and it earns the question's
\* points iff it is correct.
C10_TrueFalseScoring ==
    \A i \in 1..Len(results) :
        questions[i].type = "true_false" =>
            LET q == questions[i]
                r == results[i]
                same == NormalizesToTrue(r.user_answer) = NormalizesToTrue(q.correct_answer)
            IN  /\ r.is_correct = same
                /\ r.points_earned = IF same THEN q.points ELSE 0

C10_Witness ==
    /\ Len(results) = 1
    /\ questions[1].type = "true_false"
    /\ NormalizesToTrue(questions[1].correct_answer)
    /\ results[1].user_answer = <<" ","y","e","s"," ">>
    /\ results[1].is_correct

AllPoints == Sum([i \in 1..Len(questions) |-> questions[i].points], Len(questions))
FinishReturned == lastCall.op = "finish_test" /\ lastCall.raised = "none"

\* C11 as stated: in the summary finish_test returns, if every submitted answer
\* (there being one at least) is correct then total_points is the sum of all
\* question point values and percentage is 100; if every submitted answer is
\* wrong both are 0.
C11_AllCorrectIsFullScore ==
    FinishReturned =>
        /\ (results # <<>> /\ \A i \in 1..Len(results) : results[i].is_correct)
               => /\ Val(summary).total_points = AllPoints
                  /\ Val(summary).percentage = <<100, 1>>
        /\ (\A i \in 1..Len(results) : ~results[i].is_correct)
               => /\ Val(summary).total_points = 0
                  /\ Val(summary).percentage = <<0, 1>>

\* C11 as amended: if every question of a non-empty list of questions with
\* positive point values has been answered and every answer is correct, then
\* total_points is the sum of all question point values and percentage is 100;
\* if every submitted answer is wrong, total_points is 0 and percentage is 0.
C11_FullAndZeroScore ==
    FinishReturned =>
        /\ (/\ Len(results) = Len(questions)
            /\ questions # <<>>
            /\ \A i \in 1..Len(questions) : questions[i].points > 0
            /\ \A i \in 1..Len(results) : results[i].is_correct)
               => /\ Val(summary).total_points = AllPoints
                  /\ Val(summary).percentage = <<100, 1>>
        /\ (\A i \in 1..Len(results) : ~results[i].is_correct)
               => /\ Val(summary).total_points = 0
                  /\ Val(summary).percentage = <<0, 1>>

\* The scenario: index 2 is the correct option of the first question, the
\* second is true_false with correct answer "True"; "2" then "True".
C11_Witness ==
    /\ FinishReturned
    /\ Len(questions) = 2
    /\ questions[1].type = "multiple_choice"
    /\ questions[1].options[2] = questions[1].correct_answer
    /\ questions[2].type = "true_false"
    /\ questions[2].correct_answer = <<"T","r","u","e">>
    /\ Len(results) = 2
    /\ results[1].user_answer = <<"2">>
    /\ results[2].user_answer = <<"T","r","u","e">>
    /\ Val(summary).total_points = questions[1].points + questions[2].points
    /\ Val(summary).percentage = <<100, 1>>

\* C12: a submit_answer call that answers a question returns true iff a
\* question is left after the index has been advanced, and so returns false
\* exactly on the call that answers the last question.
C12_ReturnsWhetherMoreRemain ==
    [][(SubmitStep /\ current_question_index < Len(questions))
       => /\ lastCall'.ret = Some(current_question_index' < Len(questions))
          /\ (lastCall'.ret = Some(FALSE))
                 <=> (current_question_index + 1 = Len(questions))]_vars

C12_Witness ==
    /\ lastCall.op = "submit_answer"
    /\ lastCall.ret = Some(FALSE)
    /\ Len(questions) >= 2
    /\ current_question_index = Len(questions)

\* C13: the index never decreases and the result list is append-only: every
\* recorded result stays at its position with the same content.
C13_AppendOnly ==
    [][/\ current_question_index' >= current_question_index
       /\ Len(results') >= Len(results)
       /\ SubSeq(results', 1, Len(results)) = results]_vars

C13_Witness ==
    /\ Len(results) >= 2
    /\ start_time # None
    /\ end_time # None
    /\ lastCall.op = "submit_answer"

\* C14: once finish_test has returned a summary, no later operation on the
\* session changes that summary: its result list, total_points, max_points
\* and percentage stay as returned.
C14_SummaryImmutable ==
    [][(Returned /\ lastCall'.op # "finish_test")
       => (summary' = summary /\ summary_results' = summary_results)]_vars

\* A file load_questions can read: a JSON object whose 'questions' entry, if
\* any, is a list of objects.
Readable(file) ==
    /\ file.kind = "json"
    /\ file.data.t = "object"
    /\ "questions" \in DOMAIN file.data.entries =>
           /\ file.data.entries.questions.t = "array"
           /\ \A k \in 1..Len(file.data.entries.questions.items) :
                  file.data.entries.questions.items[k].t = "object"

\* C15: load_questions never raises; it returns false for a file that is
\* missing, malformed or otherwise unreadable and true for a readable one, and
\* a call that returns false leaves the question list as it was.
C15_FailedLoadKeepsQuestions ==
    /\ [](/\ app.raised = "none"
          /\ app.loaded # None => (Val(app.loaded).ret <=> Readable(Val(app.loaded).file)))
    /\ [][(app'.loaded # None /\ ~Val(app'.loaded).ret)
          => app'.questions = app.questions]_vars

C15_Witness ==
    /\ app.loaded # None
    /\ ~Val(app.loaded).ret
    /\ Val(app.loaded).file.kind = "json"
    /\ app.questions # <<>>

\* C18: a run of start_interactive_test calls finish_test at most once, and
\* only when every question has been answered; a run the user cancels or
\* interrupts calls neither finish_test nor save_results and leaves the
\* session without an end time.
C18_FinishOnlyAfterLastAnswer ==
    /\ cli.finish_calls <= 1
    /\ cli.finish_calls = 1 => current_question_index = Len(questions)
    /\ cli.outcome \in {"cancelled", "interrupted"}
           => /\ cli.finish_calls = 0
              /\ cli.save_calls = 0
              /\ end_time = None

C18_Witness ==
    /\ cli.outcome = "cancelled"
    /\ Len(results) >= 1
    /\ current_question_index < Len(questions)
    /\ end_time = None

Scores(list) ==
    [k \in 1..Len(list) |-> <<list[k].is_correct, list[k].points_earned, list[k].max_points>>]

\* C16: for the same question list and the same raw answers the web state and
\* the TestSession agree: the same current index, the same list of
\* (is_correct, points_earned, max_points), and the totals /test_complete
\* renders are those of the summary finish_test returns.
C16_WebRefinesSession ==
    /\ web.test_questions = questions
    /\ web.current_question = current_question_index
    /\ Scores(web.test_results) = Scores(results)
    /\ (FinishReturned /\ web.rendered # None)
           => /\ Val(web.rendered).total_points = Val(summary).total_points
              /\ Val(web.rendered).max_points = Val(summary).max_points
              /\ Val(web.rendered).percentage = Val(summary).percentage

C16_Witness ==
    /\ FinishReturned
    /\ web.rendered # None
    /\ Len(results) = 2
    /\ results[1].user_answer = <<"2"," ">>
    /\ results[1].is_correct
    /\ results[2].user_answer = <<" ","T","r","u","e">>
    /\ Val(summary).total_points = Val(summary).max_points

\* C17: every recorded answer is scored against the question of the page it
\* was typed into.
C17_ScoredAgainstDisplayedQuestion ==
    \A k \in 1..Len(web.test_results) :
        web.test_results[k].question_id = web.given[k]

====
